---- MODULE Spec2Model ----
(***************************************************************************)
(* Model of the telegraf systemd_timings input plugin                      *)
(* (plugins/inputs/systemd_timings/systemd_timings.go).                    *)
(*                                                                         *)
(* Strings are sequences of one-character strings, so that Split,          *)
(* HasSuffix and the strconv parsers are computed character by character.  *)
(* A uint64 is a little-endian tuple of four 16-bit limbs, so that the     *)
(* 64-bit (and 32-bit) widths of the Go code are kept exactly.             *)
(***************************************************************************)
EXTENDS Integers, Sequences, FiniteSets, TLC

VARIABLES
    periodic,        \* s.Periodic, the plugin's configuration
    collectionDone,  \* package variable collectionDone
    managerProps,    \* package variable managerProps: name -> string
    in,              \* what the bus answered to the calls of the last operation
    out              \* what the last operation did: records, errors, result

vars == <<periodic, collectionDone, managerProps, in, out>>

----------------------------------------------------------------------------
(* uint64 arithmetic on 16-bit limbs *)

B == 2 ^ 16

Zero64 == <<0, 0, 0, 0>>

Max64 == <<B - 1, B - 1, B - 1, B - 1>>

\* A small natural (below 2^31) as a uint64.
U64(n) == <<n % B, n \div B, 0, 0>>

\* 2^k as a uint64, 0 <= k <= 63.
Pow2(k) ==
    LET limb(i) == IF i = (k \div 16) + 1 THEN 2 ^ (k % 16) ELSE 0
    IN  <<limb(1), limb(2), limb(3), limb(4)>>

\* a < b, compared from the most significant limb.
Lt64(a, b) ==
    IF a[4] # b[4] THEN a[4] < b[4]
    ELSE IF a[3] # b[3] THEN a[3] < b[3]
    ELSE IF a[2] # b[2] THEN a[2] < b[2]
    ELSE a[1] < b[1]

Geq64(a, b) == ~Lt64(a, b)

\* Go's a - b on uint64: the difference modulo 2^64, limb by limb with the
\* borrow (the B added to each limb keeps it non-negative).
Sub64(a, b) ==
    LET d1 == a[1] - b[1] + B
        d2 == a[2] - b[2] + B - (IF d1 < B THEN 1 ELSE 0)
        d3 == a[3] - b[3] + B - (IF d2 < B THEN 1 ELSE 0)
        d4 == a[4] - b[4] + B - (IF d3 < B THEN 1 ELSE 0)
    IN  <<d1 % B, d2 % B, d3 % B, d4 % B>>

\* The mathematical sum a + b: its low 64 bits, and the carry out of them.
Add64(a, b) ==
    LET s1 == a[1] + b[1]
        s2 == a[2] + b[2] + (s1 \div B)
        s3 == a[3] + b[3] + (s2 \div B)
        s4 == a[4] + b[4] + (s3 \div B)
    IN  [val |-> <<s1 % B, s2 % B, s3 % B, s4 % B>>, carry |-> s4 \div B]

\* n * 10 + d: the low 64 bits, and what is carried out of them.
MulAdd10(n, d) ==
    LET t1 == n[1] * 10 + d
        t2 == n[2] * 10 + (t1 \div B)
        t3 == n[3] * 10 + (t2 \div B)
        t4 == n[4] * 10 + (t3 \div B)
    IN  [val |-> <<t1 % B, t2 % B, t3 % B, t4 % B>>, carry |-> t4 \div B]

\* n \div 10 and n % 10, by long division from the most significant limb.
DivMod10(n) ==
    LET c4 == n[4]
        c3 == (c4 % 10) * B + n[3]
        c2 == (c3 % 10) * B + n[2]
        c1 == (c2 % 10) * B + n[1]
    IN  [quot |-> <<c1 \div 10, c2 \div 10, c3 \div 10, c4 \div 10>>,
         rem  |-> c1 % 10]

----------------------------------------------------------------------------
(* strings *)

Digits == <<"0", "1", "2", "3", "4", "5", "6", "7", "8", "9">>

DigitSet == {Digits[i] : i \in 1..10}

DigitValue == [c \in DigitSet |-> (CHOOSE i \in 1..10 : Digits[i] = c) - 1]

IsDigit(c) == c \in DigitSet

DigitVal(c) == DigitValue[c]

\* strconv.FormatUint(n, 10): how the bus library prints a uint64.
RECURSIVE FmtDigits(_)
FmtDigits(qr) ==
    IF qr.quot = Zero64 THEN <<Digits[qr.rem + 1]>>
    ELSE FmtDigits(DivMod10(qr.quot)) \o <<Digits[qr.rem + 1]>>

FormatUint(n) == FmtDigits(DivMod10(n))

\* dbus.Variant.String() of a uint64 ("t") value: "@t <decimal>".
VariantString(n) == <<"@", "t", " ">> \o FormatUint(n)

\* strings.Split(s, " ")
\* The index of the first " " of s from i on, or 0.
RECURSIVE IndexSpace(_, _)
IndexSpace(s, i) ==
    IF i > Len(s) THEN 0
    ELSE IF s[i] = " " THEN i
    ELSE IndexSpace(s, i + 1)

\* strings.Split(s, " "), with k the index of the first " " of s or 0.
RECURSIVE SplitAt(_, _)
SplitAt(s, k) ==
    IF k = 0 THEN <<s>>
    ELSE LET rest == SubSeq(s, k + 1, Len(s))
         IN  <<SubSeq(s, 1, k - 1)>> \o SplitAt(rest, IndexSpace(rest, 1))

Split(s) == SplitAt(s, IndexSpace(s, 1))

\* strings.HasSuffix(s, suffix)
HasSuffix(s, suffix) ==
    /\ Len(s) >= Len(suffix)
    /\ SubSeq(s, Len(s) - Len(suffix) + 1, Len(s)) = suffix

----------------------------------------------------------------------------
(* strconv *)

\* The largest value of bitSize bits: uint64(1)<<bitSize - 1.
MaxVal(bitSize) == IF bitSize = 64 THEN Max64 ELSE Sub64(Pow2(bitSize), U64(1))

\* n1 < n || n1 > maxVal, for n1 = n * 10 + d in 64 bits.
LeavesRange(m, bitSize) ==
    m.carry # 0 \/ (bitSize < 64 /\ Lt64(MaxVal(bitSize), m.val))

\* The loop of strconv.ParseUint(s, 10, bitSize) from character i on, with n
\* the value read so far: a character that is no digit is a syntax error, a
\* value that leaves bitSize bits is a range error.
RECURSIVE ParseLoop(_, _, _, _)
ParseLoop(s, i, m, bitSize) ==
    IF LeavesRange(m, bitSize) THEN [err |-> "range", val |-> MaxVal(bitSize)]
    ELSE IF i > Len(s) THEN [err |-> "nil", val |-> m.val]
    ELSE IF ~IsDigit(s[i]) THEN [err |-> "syntax", val |-> Zero64]
    ELSE ParseLoop(s, i + 1, MulAdd10(m.val, DigitVal(s[i])), bitSize)

\* strconv.ParseUint(s, 10, bitSize)
ParseUint(s, bitSize) ==
    IF s = <<>> THEN [err |-> "syntax", val |-> Zero64]
    ELSE ParseLoop(s, 1, [val |-> Zero64, carry |-> 0], bitSize)

\* The end of strconv.ParseInt: un is what ParseUint made of the digits, neg
\* whether a "-" came first, cutoff = 1 << (bitSize - 1).
SignedRange(un, neg, cutoff) ==
    IF un.err = "syntax" THEN [err |-> "syntax", neg |-> FALSE, mag |-> Zero64]
    ELSE IF un.err = "range" THEN [err |-> "range", neg |-> neg, mag |-> cutoff]
    ELSE IF ~neg /\ Geq64(un.val, cutoff)
    THEN [err |-> "range", neg |-> FALSE, mag |-> Sub64(cutoff, U64(1))]
    ELSE IF neg /\ Lt64(cutoff, un.val)
    THEN [err |-> "range", neg |-> TRUE, mag |-> cutoff]
    ELSE [err |-> "nil", neg |-> neg, mag |-> un.val]

\* strconv.ParseInt(s, 10, bitSize): an optional sign, then ParseUint, then
\* the range of a signed bitSize-bit integer.  The value is returned as a
\* sign and a magnitude.
ParseInt(s, bitSize) ==
    IF s = <<>> THEN [err |-> "syntax", neg |-> FALSE, mag |-> Zero64]
    ELSE SignedRange(
             ParseUint(IF s[1] \in {"+", "-"} THEN Tail(s) ELSE s, bitSize),
             s[1] = "-", Pow2(bitSize - 1))

----------------------------------------------------------------------------
(* the bus: what a call answers *)

\* A property read fails, or answers the printed variant.
ReadError == [err |-> TRUE, val |-> <<>>]

Answer(str) == [err |-> FALSE, val |-> str]

\* The answer for a uint64 property of value n.
Prop(n) == Answer(VariantString(n))

\* An answer whose value is no unsigned decimal: a double, "@d 1.5".
BadProp == Answer(<<"@", "d", " ", "1", ".", "5">>)

----------------------------------------------------------------------------
(* systemd_timings.go *)

\* The keys of managerProps, in the order of the map literal.
ManagerNames ==
    << "FirmwareTimestampMonotonic",
       "LoaderTimestampMonotonic",
       "InitRDTimestampMonotonic",
       "UserspaceTimestampMonotonic",
       "FinishTimestampMonotonic",
       "SecurityStartTimestampMonotonic",
       "SecurityFinishTimestampMonotonic",
       "GeneratorsStartTimestampMonotonic",
       "GeneratorsFinishTimestampMonotonic",
       "UnitsLoadStartTimestampMonotonic",
       "UnitsLoadFinishTimestampMonotonic",
       "InitRDSecurityStartTimestampMonotonic",
       "InitRDSecurityFinishTimestampMonotonic",
       "InitRDGeneratorsStartTimestampMonotonic",
       "InitRDGeneratorsFinishTimestampMonotonic",
       "InitRDUnitsLoadStartTimestampMonotonic",
       "InitRDUnitsLoadFinishTimestampMonotonic" >>

ManagerNameSet == {ManagerNames[i] : i \in 1..Len(ManagerNames)}

\* var managerProps = map[string]string{ name: "", ... }
InitialManagerProps == [n \in ManagerNameSet |-> <<>>]

\* stripType: the second token of "<type> <value>".  (Go panics on a string
\* of one token; every answer of the bus modelled here has two.)
stripType(str) == Split(str)[2]

\* getManagerProp(dbusConn, propName), with mgr the bus's answer per name.
getManagerProp(mgr, propName) ==
    IF mgr[propName].err THEN [err |-> TRUE, val |-> <<>>]
    ELSE [err |-> FALSE, val |-> stripType(mgr[propName].val)]

\* The bitSize bootIsFinished passes to strconv.ParseInt.
ProgressBitSize == 32

\* progressVal != 0, or false when the conversion failed.
ProgressNonZero(progressVal) ==
    IF progressVal.err # "nil" THEN FALSE ELSE progressVal.mag # Zero64

\* The conversion of bootIsFinished, or false when the read failed.
ProgressOf(progressStr) ==
    IF progressStr.err THEN FALSE
    ELSE ProgressNonZero(ParseInt(progressStr.val, ProgressBitSize))

\* bootIsFinished(), with connOK whether dbus.NewSystemConnection succeeds.
bootIsFinished(connOK, mgr) ==
    IF ~connOK THEN FALSE
    ELSE ProgressOf(getManagerProp(mgr, "FinishTimestampMonotonic"))

\* acc.AddFields(measurement, fields, tags) of postAllManagerProps.
ManagerRecord(name, value) ==
    [measurement |-> "systemd_timings",
     tags        |-> [SystemTimestamp |-> name],
     fields      |-> [SystemTimestampValue |-> value]]

\* ManagerPost without the report of the conversion's error.
ManagerPostSilent(saved, name, value) ==
    IF value.err # "nil" THEN saved
    ELSE [saved EXCEPT !.metrics = Append(@, ManagerRecord(name, value.val))]

\* The end of an iteration of postAllManagerProps: the converted value is
\* sent, or the conversion's error is.
ManagerPost(saved, name, value) ==
    IF value.err # "nil"
    THEN [saved EXCEPT !.errors =
             Append(@, [src |-> "manager", from |-> name, err |-> value.err])]
    ELSE [saved EXCEPT !.metrics = Append(@, ManagerRecord(name, value.val))]

\* ManagerSave posting "0" as well.
ManagerSaveZero(st, name, propVal) ==
    IF propVal = <<>>
    THEN [st EXCEPT !.props[name] = propVal]
    ELSE ManagerPost([st EXCEPT !.props[name] = propVal], name,
                     ParseUint(propVal, 64))

\* An iteration of postAllManagerProps after a read that succeeded: the
\* value is saved, and posted unless it is "" or "0".
ManagerSave(st, name, propVal) ==
    IF propVal = <<>> \/ propVal = <<"0">>
    THEN [st EXCEPT !.props[name] = propVal]
    ELSE ManagerPost([st EXCEPT !.props[name] = propVal], name,
                     ParseUint(propVal, 64))

\* ManagerIteration saving the empty value after a failed read.
ManagerIterationClearing(st, name, p) ==
    IF p.err THEN [st EXCEPT !.props[name] = <<>>]
    ELSE ManagerSave(st, name, p.val)

\* One iteration of the loop of postAllManagerProps, on the accumulated
\* st = [props, metrics, errors], with p what getManagerProp returned.
ManagerIteration(st, name, p) ==
    IF p.err THEN st ELSE ManagerSave(st, name, p.val)

RECURSIVE ManagerLoop(_, _, _)
ManagerLoop(st, mgr, i) ==
    IF i > Len(ManagerNames) THEN st
    ELSE ManagerLoop(
             ManagerIteration(st, ManagerNames[i],
                              getManagerProp(mgr, ManagerNames[i])),
             mgr, i + 1)

\* postAllManagerProps(dbusConn, acc): the map is ranged over in the order
\* of ManagerNames (Go leaves the order open; the iterations touch disjoint
\* keys, so only the order of the records depends on it).  It returns nil.
postAllManagerProps(props, mgr) ==
    ManagerLoop([props |-> props, metrics |-> <<>>, errors |-> <<>>], mgr, 1)

\* The four lifecycle properties getUnitTimingData reads, in its order.
UnitPropNames ==
    << "InactiveExitTimestampMonotonic",
       "ActiveEnterTimestampMonotonic",
       "ActiveExitTimestampMonotonic",
       "InactiveEnterTimestampMonotonic" >>

\* if t > 0 { t -= userSpaceStart }, on uint64.
Normalize(t, userSpaceStart) ==
    IF Lt64(Zero64, t) THEN Sub64(t, userSpaceStart) ELSE t

\* runtime without the comparisons.
RunDurationActivated(activating, activated, deactivated) ==
    Sub64(activated, activating)

\* runtime of getUnitTimingData, from the normalized timestamps.
RunDuration(activating, activated, deactivated) ==
    IF Geq64(activated, activating) THEN Sub64(activated, activating)
    ELSE IF Geq64(deactivated, activating) THEN Sub64(deactivated, activating)
    ELSE Zero64

UnitFailure(err) ==
    [err |-> err, activating |-> Zero64, activated |-> Zero64,
     deactivating |-> Zero64, deactivated |-> Zero64, runtime |-> Zero64]

\* The return of getUnitTimingData, from the normalized timestamps.
UnitTimes(activating, activated, deactivating, deactivated) ==
    [err          |-> "nil",
     activating   |-> activating,
     activated    |-> activated,
     deactivating |-> deactivating,
     deactivated  |-> deactivated,
     runtime      |-> RunDuration(activating, activated, deactivated)]

\* getUnitTimingData after the four reads: parsed are the four conversions,
\* the first that failed is returned.
UnitConverted(parsed, userSpaceStart) ==
    IF \E i \in 1..4 : parsed[i].err # "nil"
    THEN UnitFailure(
             parsed[CHOOSE i \in 1..4 :
                        /\ parsed[i].err # "nil"
                        /\ \A j \in 1..(i - 1) : parsed[j].err = "nil"].err)
    ELSE UnitTimes(Normalize(parsed[1].val, userSpaceStart),
                   Normalize(parsed[2].val, userSpaceStart),
                   Normalize(parsed[3].val, userSpaceStart),
                   Normalize(parsed[4].val, userSpaceStart))

\* getUnitTimingData(dbusConn, unitName, userSpaceStart), with props the
\* bus's answers to the four GetUnitProperty calls: the four reads, then the
\* four conversions, each returning at its first failure.
getUnitTimingData(props, userSpaceStart) ==
    IF \E i \in 1..4 : props[i].err THEN UnitFailure("dbus")
    ELSE UnitConverted(
             [i \in 1..4 |-> ParseUint(stripType(props[i].val), 64)],
             userSpaceStart)

TargetSuffix == <<".", "t", "a", "r", "g", "e", "t">>

\* Suppressed without the exemption of targets.
SuppressedAnyName(runtime, unitName) == runtime = Zero64

\* Whether the loop of postAllUnitTimingData skips the unit's record.
Suppressed(runtime, unitName) ==
    runtime = Zero64 /\ ~HasSuffix(unitName, TargetSuffix)

\* acc.AddFields(measurement, fields, tags) of postAllUnitTimingData.
UnitRecord(unitName, t) ==
    [measurement |-> "systemd_timings",
     tags        |-> [UnitName |-> unitName],
     fields      |-> [ActivatingTimestamp   |-> t.activating,
                      ActivatedTimestamp    |-> t.activated,
                      DeactivatingTimestamp |-> t.deactivating,
                      DeactivatedTimestamp  |-> t.deactivated,
                      RunDuration           |-> t.runtime]]

\* One iteration of the loop over statusList, on st = [metrics, errors],
\* with t what getUnitTimingData returned.
UnitIteration(st, unitName, t) ==
    IF t.err # "nil"
    THEN [st EXCEPT !.errors =
             Append(@, [src |-> "unit", from |-> unitName, err |-> t.err])]
    ELSE IF Suppressed(t.runtime, unitName) THEN st
    ELSE [st EXCEPT !.metrics = Append(@, UnitRecord(unitName, t))]

RECURSIVE UnitLoop(_, _, _, _)
UnitLoop(st, statusList, userStartTs, i) ==
    IF i > Len(statusList) THEN st
    ELSE UnitLoop(
             UnitIteration(st, statusList[i].name,
                           getUnitTimingData(statusList[i].props, userStartTs)),
             statusList, userStartTs, i + 1)

\* UnitsPosted failing when a unit failed.
UnitsPostedFatal(st) ==
    [err |-> IF st.errors = <<>> THEN "nil" ELSE "unit",
     metrics |-> st.metrics, errors |-> st.errors]

\* The return of postAllUnitTimingData after the loop: nil.
UnitsPosted(st) ==
    [err |-> "nil", metrics |-> st.metrics, errors |-> st.errors]

\* postAllUnitTimingData from the conversion of the userspace start on.
UnitsFrom(userStartTs, statusList) ==
    IF userStartTs.err # "nil"
    THEN [err |-> userStartTs.err, metrics |-> <<>>,
          errors |-> <<[src  |-> "userspace",
                        from |-> "UserspaceTimestampMonotonic",
                        err  |-> userStartTs.err]>>]
    ELSE UnitsPosted(UnitLoop([metrics |-> <<>>, errors |-> <<>>],
                              statusList, userStartTs.val, 1))

\* postAllUnitTimingData(dbusConn, acc, s), with list the bus's answer to
\* ListUnitsByPatterns: [err, units], a unit being [name, props].
postAllUnitTimingData(props, list) ==
    IF list.err
    THEN [err |-> "list", metrics |-> <<>>,
          errors |-> <<[src |-> "list", from |-> "ListUnitsByPatterns",
                        err |-> "list"]>>]
    ELSE IF "UserspaceTimestampMonotonic" \notin DOMAIN props
    THEN [err |-> "notfound", metrics |-> <<>>, errors |-> <<>>]
    ELSE UnitsFrom(ParseUint(props["UserspaceTimestampMonotonic"], 64),
                   list.units)

\* What a tick that returns before the pass leaves behind.
NoPass(ready, done, props) ==
    [ready |-> ready, pass |-> FALSE, connected |-> FALSE,
     collectionDone |-> done, props |-> props,
     metrics |-> <<>>, errors |-> <<>>, ret |-> "nil",
     managerErr |-> "none", unitErr |-> "none"]

\* GatherEnd setting collectionDone whatever the unit collector returned.
GatherEndAlwaysDone(done, m, u) ==
    [ready          |-> TRUE,
     pass           |-> TRUE,
     connected      |-> TRUE,
     collectionDone |-> TRUE,
     props          |-> m.props,
     metrics        |-> m.metrics \o u.metrics,
     errors         |-> m.errors \o u.errors,
     ret            |-> u.err,
     managerErr     |-> "nil",
     unitErr        |-> u.err]

\* The end of Gather, with m and u what the two collectors returned: u's
\* error is reported once more and returned, or collectionDone is set.
GatherEnd(done, m, u) ==
    [ready          |-> TRUE,
     pass           |-> TRUE,
     connected      |-> TRUE,
     collectionDone |-> IF u.err = "nil" THEN TRUE ELSE done,
     props          |-> m.props,
     metrics        |-> m.metrics \o u.metrics,
     errors         |-> m.errors \o u.errors \o
                        (IF u.err # "nil"
                         THEN <<[src |-> "gather", from |-> "Gather",
                                 err |-> u.err]>>
                         ELSE <<>>),
     ret            |-> u.err,
     managerErr     |-> "nil",
     unitErr        |-> u.err]

\* Gather after postAllManagerProps returned m (its error is always nil).
GatherUnits(done, m, list) ==
    GatherEnd(done, m, postAllUnitTimingData(m.props, list))

\* Gather collecting only once, whatever periodic is.
GatherOnce(per, done, props, i) ==
    IF ~bootIsFinished(i.bootConn, i.mgr) THEN NoPass(FALSE, done, props)
    ELSE IF done = TRUE THEN NoPass(TRUE, done, props)
    ELSE IF ~i.conn
    THEN [NoPass(TRUE, done, props) EXCEPT !.pass = TRUE, !.ret = "connect"]
    ELSE GatherUnits(done, postAllManagerProps(props, i.mgr), i.list)

\* (s *SystemdTimings) Gather(acc), from the state (per, done, props) and
\* the bus's answers i = [bootConn, conn, mgr, list].  pass: the tick got
\* past both early returns; managerErr / unitErr: what the collectors
\* returned ("none" when not called).
Gather(per, done, props, i) ==
    IF ~bootIsFinished(i.bootConn, i.mgr) THEN NoPass(FALSE, done, props)
    ELSE IF per = FALSE /\ done = TRUE THEN NoPass(TRUE, done, props)
    ELSE IF ~i.conn
    THEN [NoPass(TRUE, done, props) EXCEPT !.pass = TRUE, !.ret = "connect"]
    ELSE GatherUnits(done, postAllManagerProps(props, i.mgr), i.list)

----------------------------------------------------------------------------
(* the bus's state: typed values, printed when read *)

\* A property of the bus: a uint64 ("t"), a value of another type ("d"), or
\* a property whose read fails ("err").
T(n) == [k |-> "t", v |-> n]

Failing == [k |-> "err", v |-> Zero64]

Mistyped == [k |-> "d", v |-> Zero64]

\* dbusConn.GetManagerProperty / GetUnitProperty(...).Value.String()
Render(b) ==
    IF b.k = "err" THEN ReadError
    ELSE IF b.k = "d" THEN BadProp
    ELSE Prop(b.v)

RenderUnit(unit) ==
    [name |-> unit.name, props |-> [j \in 1..4 |-> Render(unit.props[j])]]

\* The answers of the bus to the calls of one tick.
Bus(i) ==
    [bootConn |-> i.bootConn,
     conn     |-> i.conn,
     mgr      |-> [n \in ManagerNameSet |-> Render(i.mgr[n])],
     list     |-> [err   |-> i.list.err,
                   units |-> [j \in 1..Len(i.list.units) |->
                                 RenderUnit(i.list.units[j])]]]

----------------------------------------------------------------------------
(* the ticks of the host agent *)

\* The most units one enumeration answers.
MaxUnits == 2

Unit(name, a, b, c, d) == [name |-> name, props |-> <<a, b, c, d>>]

\* a.service: started at 1000, active at 5000.
SvcRun ==
    Unit(<<"a", ".", "s", "e", "r", "v", "i", "c", "e">>,
         T(U64(1000)), T(U64(5000)), T(Zero64), T(Zero64))

\* b.service: never started.
SvcIdle ==
    Unit(<<"b", ".", "s", "e", "r", "v", "i", "c", "e">>,
         T(Zero64), T(Zero64), T(Zero64), T(Zero64))

\* c.target: reached at once, run duration 0.
TargetIdle ==
    Unit(<<"c", ".", "t", "a", "r", "g", "e", "t">>,
         T(U64(1000)), T(U64(1000)), T(Zero64), T(Zero64))

\* d.service: the read of its second property fails.
SvcFail ==
    Unit(<<"d", ".", "s", "e", "r", "v", "i", "c", "e">>,
         T(U64(1000)), Failing, T(Zero64), T(Zero64))

UnitMenu == {SvcRun, SvcIdle, TargetIdle, SvcFail}

\* Enumerations: up to MaxUnits distinct units, in any order.
UnitLists ==
    {l \in UNION {[1..n -> UnitMenu] : n \in 0..MaxUnits} :
        \A x, y \in 1..Len(l) : x # y => l[x] # l[y]}

MgrProfile(finish, userspace, other) ==
    [n \in ManagerNameSet |->
        IF n = "FinishTimestampMonotonic" THEN finish
        ELSE IF n = "UserspaceTimestampMonotonic" THEN userspace
        ELSE other]

TickInput(bootConn, finish, conn, userspace, other, list) ==
    [bootConn |-> bootConn, conn |-> conn,
     mgr |-> MgrProfile(finish, userspace, other), list |-> list]

Listed(l) == [err |-> FALSE, units |-> l]

ListFailure == [err |-> TRUE, units |-> <<>>]

Booted == T(U64(5000))

\* What the bus may answer during one tick.  Calls a tick cannot reach
\* (after a failed connection or an unfinished boot) keep one answer.
TickInputs ==
    {TickInput(FALSE, Booted, TRUE, T(U64(500)), T(U64(1000)), Listed(<<>>))}
    \cup
    {TickInput(TRUE, f, TRUE, T(U64(500)), T(U64(1000)), Listed(<<>>)) :
        f \in {T(Zero64), Failing}}
    \cup
    {TickInput(TRUE, Booted, FALSE, T(U64(500)), T(U64(1000)), Listed(<<>>))}
    \cup
    {TickInput(TRUE, Booted, TRUE, u, o, l) :
        u \in {T(U64(500)), Failing},
        o \in {T(U64(1000)), Failing},
        l \in {ListFailure} \cup {Listed(x) : x \in UnitLists}}

NoInput ==
    TickInput(FALSE, Booted, TRUE, T(U64(500)), T(U64(1000)), Listed(<<>>))

\* out of a tick: what Gather did, with collectionDone and the saved
\* userspace start as the tick found them, and whether some tick so far
\* opened the connection and got nil from both collectors.
Observed(r, done, userTs, succeeded) ==
    [ready |-> r.ready, pass |-> r.pass, connected |-> r.connected,
     metrics |-> r.metrics, errors |-> r.errors, ret |-> r.ret,
     managerErr |-> r.managerErr, unitErr |-> r.unitErr,
     doneAtEntry |-> done, userTsAtEntry |-> userTs,
     succeeded |-> succeeded \/ (r.connected /\ r.managerErr = "nil"
                                              /\ r.unitErr = "nil"),
     ticked |-> TRUE]

Init ==
    /\ periodic \in BOOLEAN
    /\ collectionDone = FALSE
    /\ managerProps = InitialManagerProps
    /\ in = NoInput
    /\ out = [Observed(NoPass(FALSE, FALSE, InitialManagerProps),
                       FALSE, <<>>, FALSE)
                 EXCEPT !.ticked = FALSE]

\* The state a tick leaves, with r what Gather did on the answers i.
Ticked(i, r) ==
    /\ in' = i
    /\ out' = Observed(r, collectionDone,
                       managerProps["UserspaceTimestampMonotonic"],
                       out.succeeded)
    /\ collectionDone' = r.collectionDone
    /\ managerProps' = r.props
    /\ UNCHANGED periodic

\* The agent calls Gather; the bus answers i.
Tick ==
    \E i \in TickInputs :
        Ticked(i, Gather(periodic, collectionDone, managerProps, Bus(i)))

Next == Tick

Spec == Init /\ [][Next]_vars

----------------------------------------------------------------------------
(* bootIsFinished on its own: one call, for every kind of answer *)

\* 2^k and 2^k - 1 for every k, and 2^64 - 1.
FinishValues ==
    {Pow2(k) : k \in 0..63} \cup {Sub64(Pow2(k), U64(1)) : k \in 0..63}
    \cup {Max64}

BootInput(bootConn, finish) ==
    [bootConn |-> bootConn, mgr |-> MgrProfile(finish, T(U64(500)), T(U64(1000)))]

BootInputs ==
    {BootInput(FALSE, Booted)}
    \cup {BootInput(TRUE, f) : f \in {Failing, Mistyped}}
    \cup {BootInput(TRUE, T(v)) : v \in FinishValues}

RenderMgr(mgr) == [n \in ManagerNameSet |-> Render(mgr[n])]

InitBoot ==
    /\ periodic = FALSE
    /\ collectionDone = FALSE
    /\ managerProps = InitialManagerProps
    /\ in \in BootInputs
    /\ out = [checked |-> FALSE, ready |-> FALSE]

BootCheck ==
    /\ ~out.checked
    /\ out' = [checked |-> TRUE,
               ready   |-> bootIsFinished(in.bootConn, RenderMgr(in.mgr))]
    /\ UNCHANGED <<periodic, collectionDone, managerProps, in>>

NextBoot == BootCheck

SpecBoot == InitBoot /\ [][NextBoot]_vars

\* C2: the readiness check returns true whenever the connection opens and
\* FinishTimestampMonotonic reads and decodes as a non-zero uint64, for every
\* value 1 .. 2^64-1; it returns false exactly when the value is 0 or a
\* connection, read or decode step fails.
C2_ReadyIffNonZero ==
    out.checked =>
        (out.ready <=>
            /\ in.bootConn
            /\ in.mgr["FinishTimestampMonotonic"].k = "t"
            /\ in.mgr["FinishTimestampMonotonic"].v # Zero64)

----------------------------------------------------------------------------
(* postAllManagerProps on its own: one pass, for many states of the bus *)

ManagerValues ==
    <<T(Zero64), T(U64(1000)), Failing, Mistyped, T(Pow2(31)), T(Max64)>>

NameIndex(n) == CHOOSE i \in 1..Len(ManagerNames) : ManagerNames[i] = n

\* The bus with the values of ManagerValues dealt over the names, and the
\* bus with one value everywhere but at one name.
ManagerInputs ==
    {[n \in ManagerNameSet |->
         ManagerValues[((NameIndex(n) * a + b) % Len(ManagerValues)) + 1]] :
        a \in 0..(Len(ManagerValues) - 1), b \in 0..(Len(ManagerValues) - 1)}
    \cup
    {[n \in ManagerNameSet |-> IF n = d THEN ManagerValues[x] ELSE base] :
        d \in ManagerNameSet, x \in 1..Len(ManagerValues),
        base \in {T(Zero64), T(U64(1000))}}

\* managerProps as an earlier pass left it, every property being 4242.
EarlierManagerProps ==
    postAllManagerProps(InitialManagerProps,
                        [n \in ManagerNameSet |-> Prop(U64(4242))]).props

InitManager ==
    /\ periodic = FALSE
    /\ collectionDone = FALSE
    /\ managerProps \in {InitialManagerProps, EarlierManagerProps}
    /\ in \in {[mgr |-> m, before |-> p] :
                  m \in ManagerInputs,
                  p \in {InitialManagerProps, EarlierManagerProps}}
    /\ in.before = managerProps
    /\ out = [done |-> FALSE, metrics |-> <<>>, errors |-> <<>>, err |-> "none"]

ManagerPassed(r) ==
    /\ out' = [done |-> TRUE, metrics |-> r.metrics, errors |-> r.errors,
               err |-> "nil"]
    /\ managerProps' = r.props
    /\ UNCHANGED <<periodic, collectionDone, in>>

ManagerPass ==
    /\ ~out.done
    /\ ManagerPassed(postAllManagerProps(managerProps, RenderMgr(in.mgr)))

NextManager == ManagerPass

SpecManager == InitManager /\ [][NextManager]_vars

IsManagerRecord(m) == DOMAIN m.tags = {"SystemTimestamp"}

IsUnitRecord(m) == DOMAIN m.tags = {"UnitName"}

\* The records of metrics for milestone n.
RecordsOf(metrics, n) ==
    {j \in 1..Len(metrics) :
        IsManagerRecord(metrics[j]) /\ metrics[j].tags.SystemTimestamp = n}

\* The errors of the given source reported for `from`.
ErrorsOf(errors, src, from) ==
    {j \in 1..Len(errors) : errors[j].src = src /\ errors[j].from = from}

\* The milestone has a decoded value that is not 0.
NonZeroMilestone(b) == b.k = "t" /\ b.v # Zero64

\* C3: in every pass, for each of the 17 milestone names, the manager
\* collector emits a record (tag SystemTimestamp = name, field
\* SystemTimestampValue = decoded value) iff the decoded value is present and
\* not 0, and at most one record per milestone.
C3_RecordIffNonZero ==
    out.done =>
        /\ Len(ManagerNames) = 17
        /\ \A j \in 1..Len(out.metrics) :
               /\ IsManagerRecord(out.metrics[j])
               /\ DOMAIN out.metrics[j].fields = {"SystemTimestampValue"}
               /\ out.metrics[j].tags.SystemTimestamp \in ManagerNameSet
        /\ \A n \in ManagerNameSet :
               /\ Cardinality(RecordsOf(out.metrics, n))
                      = IF NonZeroMilestone(in.mgr[n]) THEN 1 ELSE 0
               /\ \A j \in RecordsOf(out.metrics, n) :
                      out.metrics[j].fields.SystemTimestampValue = in.mgr[n].v

\* A pass over a bus with a non-zero, a zero, a failing and a mistyped
\* milestone.
C3_Witness ==
    /\ out.done
    /\ \E n \in ManagerNameSet : NonZeroMilestone(in.mgr[n])
    /\ \E n \in ManagerNameSet : in.mgr[n] = T(Zero64)
    /\ \E n \in ManagerNameSet : in.mgr[n] = Failing
    /\ \E n \in ManagerNameSet : in.mgr[n] = Mistyped
    /\ out.metrics # <<>>

----------------------------------------------------------------------------
(* the unit collector on one unit, for many timestamps *)

\* Unit names, each with whether it names a target.
UnitNames ==
    {[name |-> <<"a", ".", "s", "e", "r", "v", "i", "c", "e">>, target |-> FALSE],
     [name |-> <<"c", ".", "t", "a", "r", "g", "e", "t">>, target |-> TRUE],
     [name |-> <<"t", "a", "r", "g", "e", "t", ".", "s", "e", "r", "v", "i", "c", "e">>,
      target |-> FALSE]}

RawTimes == {Zero64, U64(100), U64(1000), U64(5000), Pow2(63)}

UserspaceStarts == {Zero64, U64(500), U64(1000)}

UnitInput(n, props, u) ==
    [unit |-> [name |-> n.name, target |-> n.target, props |-> props],
     userTs |-> u]

\* Every combination of raw timestamps, and a failed read or a mistyped
\* value at each of the four properties.
UnitInputs ==
    {UnitInput(n, <<T(a), T(b), T(c), T(d)>>, u) :
        n \in UnitNames, a \in RawTimes, b \in RawTimes,
        c \in {Zero64, U64(2000)}, d \in RawTimes, u \in UserspaceStarts}
    \cup
    {UnitInput(n, [j \in 1..4 |-> IF j = f THEN bad
                                  ELSE <<T(U64(1000)), T(U64(5000)),
                                         T(Zero64), T(Zero64)>>[j]], u) :
        n \in UnitNames, f \in 1..4, bad \in {Failing, Mistyped},
        u \in UserspaceStarts}

\* managerProps once the manager collector has saved the userspace start u.
SavedUserspace(u) ==
    [InitialManagerProps EXCEPT !["UserspaceTimestampMonotonic"] = FormatUint(u)]

InitUnit ==
    /\ periodic = FALSE
    /\ collectionDone = FALSE
    /\ in \in UnitInputs
    /\ managerProps = SavedUserspace(in.userTs)
    /\ out = [done |-> FALSE, times |-> UnitFailure("none"),
              metrics |-> <<>>, errors |-> <<>>, err |-> "none"]

\* out: what postAllUnitTimingData returned and sent (r), and what its call
\* of getUnitTimingData returned (t).
UnitPassed(r, t) ==
    /\ out' = [done |-> TRUE, times |-> t, metrics |-> r.metrics,
               errors |-> r.errors, err |-> r.err]
    /\ UNCHANGED <<periodic, collectionDone, managerProps, in>>

UnitPass ==
    /\ ~out.done
    /\ UnitPassed(
           postAllUnitTimingData(managerProps,
                                 Listed(<<RenderUnit(in.unit)>>)),
           getUnitTimingData(RenderUnit(in.unit).props, in.userTs))

NextUnit == UnitPass

SpecUnit == InitUnit /\ [][NextUnit]_vars

\* The unit's four properties are read and decoded.
Decoded(unit) == \A j \in 1..4 : unit.props[j].k = "t"

\* The records of metrics for the unit named name.
UnitRecordsOf(metrics, name) ==
    {j \in 1..Len(metrics) :
        IsUnitRecord(metrics[j]) /\ metrics[j].tags.UnitName = name}

UnitFields ==
    {"ActivatingTimestamp", "ActivatedTimestamp", "DeactivatingTimestamp",
     "DeactivatedTimestamp", "RunDuration"}

IsRunDuration(r, a, b, d) ==
    IF Geq64(b, a) THEN Add64(a, r) = [val |-> b, carry |-> 0]
    ELSE IF Geq64(d, a) THEN Add64(a, r) = [val |-> d, carry |-> 0]
    ELSE r = Zero64

C6_TrueDifference ==
    (out.done /\ out.times.err = "nil") =>
        \A j \in 1..4 :
            LET t == in.unit.props[j].v
                n == <<out.times.activating, out.times.activated,
                       out.times.deactivating, out.times.deactivated>>[j]
            IN  IF t = Zero64 THEN n = Zero64
                ELSE /\ ~Lt64(t, n)
                     /\ Add64(n, in.userTs) = [val |-> t, carry |-> 0]

----------------------------------------------------------------------------
(* the ticks: what a tick emits, and collectionDone *)

Targets == {TargetIdle.name}

TrueDifference(t, u) == IF t = Zero64 THEN Zero64 ELSE Sub64(t, u)

\* The times of the decoded unit x against the userspace start u.
ExpectedTimes(x, u) ==
    UnitTimes(TrueDifference(x.props[1].v, u), TrueDifference(x.props[2].v, u),
              TrueDifference(x.props[3].v, u), TrueDifference(x.props[4].v, u))

\* The manager records of a pass over the milestones mgr.
ExpectedManager(mgr) ==
    LET Sent(n) == NonZeroMilestone(mgr[n])
        sel == SelectSeq(ManagerNames, Sent)
    IN  [j \in 1..Len(sel) |-> ManagerRecord(sel[j], mgr[sel[j]].v)]

\* The unit records of a pass over units against the userspace start u.
ExpectedUnits(units, u) ==
    LET Sent(x) == /\ Decoded(x)
                   /\ \/ x.name \in Targets
                      \/ ExpectedTimes(x, u).runtime # Zero64
        sel == SelectSeq(units, Sent)
    IN  [j \in 1..Len(sel) |-> UnitRecord(sel[j].name, ExpectedTimes(sel[j], u))]

\* The userspace start the saved set holds.
SavedStart == ParseUint(managerProps["UserspaceTimestampMonotonic"], 64)

UnitRecordsIn(metrics) == {j \in 1..Len(metrics) : IsUnitRecord(metrics[j])}

\* The same records, in whatever order.
SameRecords(a, b) ==
    /\ Len(a) = Len(b)
    /\ {a[j] : j \in 1..Len(a)} = {b[j] : j \in 1..Len(b)}

\* C1: a tick runs a collection pass iff the readiness check returns true and
\* (periodic or collectionDone is false); a tick without a pass emits nothing
\* and returns nil; with periodic false and collectionDone true a tick emits
\* no record; a pass that succeeds, also a later one under periodic, emits
\* the full record set.
C1_TickPolicy ==
    out.ticked =>
        /\ out.pass <=> (out.ready /\ (periodic \/ ~out.doneAtEntry))
        /\ ~out.pass =>
               /\ out.metrics = <<>>
               /\ out.errors = <<>>
               /\ out.ret = "nil"
               /\ collectionDone = out.doneAtEntry
        /\ (~periodic /\ out.doneAtEntry) => out.metrics = <<>>
        /\ (out.pass /\ out.ret = "nil") =>
               SameRecords(out.metrics,
                           ExpectedManager(in.mgr)
                               \o ExpectedUnits(in.list.units, SavedStart.val))

\* Under periodic, a pass after collectionDone was set that emits manager
\* and unit records again.
C1_Witness ==
    /\ out.ticked
    /\ periodic
    /\ out.doneAtEntry
    /\ out.pass
    /\ out.ret = "nil"
    /\ UnitRecordsIn(out.metrics) # {}
    /\ \E j \in 1..Len(out.metrics) : IsManagerRecord(out.metrics[j])

\* C7: collectionDone starts false, is true only if some tick opened the
\* connection and got nil from both collectors, and is never reset; a tick
\* whose connection, enumeration or userspace-start conversion fails returns
\* the error and leaves collectionDone as it was.
C7_DoneOnlyAfterSuccess ==
    /\ ~out.ticked => ~collectionDone
    /\ collectionDone => out.succeeded
    /\ out.doneAtEntry => collectionDone
    /\ (out.ticked /\ out.pass /\ ~in.conn) =>
           /\ out.ret = "connect"
           /\ collectionDone = out.doneAtEntry
    /\ (out.ticked /\ out.connected /\ in.list.err) =>
           /\ out.ret = "list"
           /\ collectionDone = out.doneAtEntry
    /\ (out.ticked /\ out.connected /\ ~in.list.err /\ SavedStart.err # "nil") =>
           /\ out.ret = SavedStart.err
           /\ collectionDone = out.doneAtEntry
    /\ (out.ticked /\ out.connected /\ out.ret = "nil") => collectionDone

\* A pass whose enumeration fails after collectionDone was set.
C7_Witness ==
    /\ out.ticked
    /\ out.doneAtEntry
    /\ out.connected
    /\ out.ret = "list"
    /\ collectionDone

\* C8: in a pass over N enumerated units of which k fail to be read or
\* decoded, each failing unit gives exactly one error report and no record,
\* each of the other N - k is emitted or suppressed by its own values, the
\* unit collector returns nil and the tick sets collectionDone.
C8_FailedUnitsSkipped ==
    (out.ticked /\ out.connected /\ ~in.list.err /\ SavedStart.err = "nil") =>
        /\ out.unitErr = "nil"
        /\ out.ret = "nil"
        /\ collectionDone
        /\ Cardinality({j \in 1..Len(out.errors) : out.errors[j].src = "unit"})
               = Cardinality({j \in 1..Len(in.list.units) :
                                 ~Decoded(in.list.units[j])})
        /\ \A j \in 1..Len(in.list.units) :
               LET x == in.list.units[j]
               IN  IF ~Decoded(x)
                   THEN /\ Cardinality(ErrorsOf(out.errors, "unit", x.name)) = 1
                        /\ UnitRecordsOf(out.metrics, x.name) = {}
                   ELSE /\ ErrorsOf(out.errors, "unit", x.name) = {}
                        /\ Cardinality(UnitRecordsOf(out.metrics, x.name))
                               = IF \/ x.name \in Targets
                                    \/ ExpectedTimes(x, SavedStart.val).runtime
                                           # Zero64
                                 THEN 1 ELSE 0
                        /\ \A r \in UnitRecordsOf(out.metrics, x.name) :
                               out.metrics[r]
                                   = UnitRecord(x.name,
                                                ExpectedTimes(x, SavedStart.val))

\* A pass in which a unit fails and a unit enumerated after it is emitted.
C8_Witness ==
    /\ out.ticked
    /\ out.connected
    /\ ~in.list.err
    /\ \E a, b \in 1..Len(in.list.units) :
           /\ a < b
           /\ ~Decoded(in.list.units[a])
           /\ ErrorsOf(out.errors, "unit", in.list.units[a].name) # {}
           /\ UnitRecordsOf(out.metrics, in.list.units[b].name) # {}

====
